---- MODULE Spec2Model ----
(***************************************************************************)
(* Model of sync_blockchain (src/src/sync.rs): the initial block download  *)
(* of a node against one peer.  One action per step between two           *)
(* suspension points of the async function.                                *)
(*                                                                         *)
(* The peer and Chain State are external: the peer's replies and the       *)
(* verdict of add_block are nondeterministic inputs of the actions.        *)
(* A block hash is identified with its position in the manifest (1-based). *)
(***************************************************************************)
EXTENDS Integers, Sequences, FiniteSets

\* ---------------------------------------------------------------- bounds
\* The height of Chain State when the attempt starts.
StartHeight == 1
\* Largest number of hashes the peer puts into its manifest.
MaxManifest == 11

\* Largest manifest where the window plays no part: the runs with a request
\* that never resolves, and the runs with other writers of Chain State.
SmallManifest == 3

\* Most blocks the other tasks of the node add to Chain State while the sync
\* waits for the peer's Pong.
MaxOtherBlocks == 2

\* The heights the peer announces in its Pong: behind the node, level with
\* it, one block ahead, and a whole manifest ahead.
RemoteHeights ==
    {StartHeight - 1, StartHeight, StartHeight + 1, StartHeight + MaxManifest}

\* ------------------------------------------------------------- constants
\* const BUFFER_SIZE: usize = 10
BUFFER_SIZE == 10

VARIABLES
    pc,             \* position of sync_blockchain
    height,         \* Chain State: blockchain.block_store().get_height()
    tip,            \* Chain State: the last block added (0: the old tip)
    local_height,   \* let local_height  (-1: not yet bound)
    remote_height,  \* let remote_height (-1: not yet bound)
    hashes,         \* let hashes: the manifest, a sequence of block hashes
    pushed,         \* hashes taken by the for loop, each pushed as a future
    issued,         \* fetch futures polled so far: their GetBlock is sent
    block_futures,  \* let block_futures: the positions of the futures in it
    ret,            \* the value sync_blockchain returned, NotReturned before
    addCalls,       \* number of calls of blockchain.add_block
    accepted,       \* number of add_block calls that returned Ok
    lastOffered,    \* the block passed to the latest add_block call (0: none)
    pingSent,       \* number of Ping requests sent
    pingReq,        \* the heights the Ping requests sent carry
    hashReqSent,    \* number of GetBlockHashes requests sent
    hashReq,        \* the GetBlockHashes messages sent (start, end)
    fetchSent,      \* per manifest position, number of GetBlock sent
    queued,         \* per future pushed and not yet polled, in push order:
                    \* the number of futures polled when it was pushed
    stalled         \* the request the peer never answers, if any

vars == <<pc, height, tip, local_height, remote_height, hashes, pushed,
          issued, block_futures, ret, addCalls, accepted, lastOffered,
          pingSent, pingReq, hashReqSent, hashReq, fetchSent, queued,
          stalled>>

\* A returned value: Ok(()) or an error; the errors of lines 62, 67, 84 carry
\* the hash of the block (hash 0: the value names no block).
Value(kind, hash) == [kind |-> kind, hash |-> hash]
NotReturned == Value("none", 0)

\* A request that never resolves: the Ping, the GetBlockHashes or the
\* GetBlock of a manifest position (pos 0 otherwise); "none": all resolve.
Stall(kind, pos) == [kind |-> kind, pos |-> pos]
Resolves(kind, pos) == stalled # Stall(kind, pos)

\* What a fetch future can resolve to (lines 56-72).
\*   Block      Ok((hash, Some(block)))
\*   Empty      Ok((hash, None))
\*   Unexpected Err("Unexpected response for block ..."), reply of another kind
\*   Failed     Err("Failed to fetch block ..."), transport error
FetchKinds == {"Block", "Empty", "Unexpected", "Failed"}

\* block_futures.len()
FuturesLen == Cardinality(block_futures)

\* Fetch requests sent to the peer whose result the pipeline has not taken:
\* the futures of block_futures that were polled.
Outstanding == {i \in block_futures : i <= issued}

\* Mutant of WindowFull: the window is one slot wider.
WindowFull_wider(len) == len >= BUFFER_SIZE + 1

\* Mutant of WindowFull: the test is off by one (> for >=).
WindowFull_off(len) == len > BUFFER_SIZE

\* if block_futures.len() >= BUFFER_SIZE
WindowFull(len) == len >= BUFFER_SIZE

Start ==
    /\ pc = "start"
    /\ height = StartHeight
    /\ tip = 0
    /\ local_height = -1
    /\ remote_height = -1
    /\ hashes = <<>>
    /\ pushed = 0
    /\ issued = 0
    /\ block_futures = {}
    /\ ret = NotReturned
    /\ addCalls = 0
    /\ accepted = 0
    /\ lastOffered = 0
    /\ pingSent = 0
    /\ pingReq = {}
    /\ hashReqSent = 0
    /\ hashReq = {}
    /\ fetchSent = <<>>
    /\ queued = <<>>

\* Every request is answered.
Init ==
    /\ Start
    /\ stalled = Stall("none", 0)

\* Mutant of Return: the value is kept until the futures still in
\* block_futures have completed.
Return_awaits_rest(v) ==
    /\ ret' = v
    /\ block_futures' = block_futures
    /\ queued' = queued
    /\ pc' = "drain"

\* Mutant of Return: the value is recorded but the function goes on.
Return_goes_on(v) ==
    /\ ret' = v
    /\ block_futures' = block_futures
    /\ pc' = pc
    /\ queued' = queued

\* return Err(..) / return Ok(()): the locals are dropped, and dropping
\* block_futures drops the futures still in it.
Return(v) ==
    /\ ret' = v
    /\ block_futures' = {}
    /\ pc' = "done"
    /\ queued' = <<>>

\* Lines 18-23: read the local height, send Ping { height: local_height }.
SendPing ==
    /\ pc = "start"
    /\ local_height' = height
    /\ pingSent' = pingSent + 1
    /\ pingReq' = pingReq \cup {height}
    /\ pc' = "ping"
    /\ UNCHANGED <<height, tip, remote_height, hashes, pushed, issued,
                   block_futures, ret, addCalls, lastOffered, hashReqSent,
                   hashReq, fetchSent>>
    /\ UNCHANGED <<accepted, queued, stalled>>

\* Lines 30-35: send GetBlockHashes { start: local_height, end: remote_height }.
SendGetBlockHashes(start, end) ==
    /\ hashReqSent' = hashReqSent + 1
    /\ hashReq' = hashReq \cup {[start |-> start, end |-> end]}

\* Mutant of PongReply: the height is read again for the hash-range query.
PongReply_rereads(h) ==
    /\ pc = "ping"
    /\ Resolves("ping", 0)
    /\ remote_height' = h
    /\ SendGetBlockHashes(height, h)
    /\ pc' = "hashes"
    /\ UNCHANGED <<height, tip, local_height, hashes, pushed, issued,
                   block_futures, ret, addCalls, lastOffered, pingSent,
                   fetchSent>>
    /\ UNCHANGED <<accepted, pingReq, queued, stalled>>

\* Lines 23-35: the reply is Pong { height }; bind remote_height and send the
\* hash-range query.
PongReply(h) ==
    /\ pc = "ping"
    /\ Resolves("ping", 0)
    /\ remote_height' = h
    /\ SendGetBlockHashes(local_height, h)
    /\ pc' = "hashes"
    /\ UNCHANGED <<height, tip, local_height, hashes, pushed, issued,
                   block_futures, ret, addCalls, lastOffered, pingSent,
                   fetchSent>>
    /\ UNCHANGED <<accepted, pingReq, queued, stalled>>

\* Mutant of PingWrongKind: the Ping is sent again.
PingWrongKind_retry ==
    /\ pc = "ping"
    /\ pingSent' = pingSent + 1
    /\ UNCHANGED <<pc, height, tip, local_height, remote_height, hashes,
                   pushed, issued, block_futures, ret, addCalls, lastOffered,
                   hashReqSent, hashReq, fetchSent>>
    /\ UNCHANGED <<accepted, pingReq, queued, stalled>>

\* Mutant of PingWrongKind: the error is recorded, and the hash-range query
\* is sent all the same.
PingWrongKind_goes_on ==
    /\ pc = "ping"
    /\ ret' = [kind |-> "ErrPeerHeight", hash |-> 0]
    /\ hashReqSent' = hashReqSent + 1
    /\ hashReq' = hashReq \cup {[start |-> local_height, end |-> 0]}
    /\ remote_height' = 0
    /\ pc' = "hashes"
    /\ UNCHANGED <<height, tip, local_height, hashes, pushed, issued,
                   block_futures, addCalls, lastOffered, pingSent, fetchSent>>
    /\ UNCHANGED <<accepted, pingReq, queued, stalled>>

\* Line 27: the reply to Ping is of another kind.
PingWrongKind ==
    /\ pc = "ping"
    /\ Resolves("ping", 0)
    /\ Return(Value("ErrPeerHeight", 0))
    /\ UNCHANGED <<height, tip, local_height, remote_height, hashes, pushed,
                   issued, addCalls, lastOffered, pingSent, hashReqSent,
                   hashReq, fetchSent>>
    /\ UNCHANGED <<accepted, pingReq, stalled>>

\* Line 23: peer.request(..).await? propagates the transport error.
PingTransportError ==
    /\ pc = "ping"
    /\ Resolves("ping", 0)
    /\ Return(Value("ErrTransport", 0))
    /\ UNCHANGED <<height, tip, local_height, remote_height, hashes, pushed,
                   issued, addCalls, lastOffered, pingSent, hashReqSent,
                   hashReq, fetchSent>>
    /\ UNCHANGED <<accepted, pingReq, stalled>>

\* Lines 35-38: the reply is GetBlockHashesResponse { block_hashes } with n
\* hashes; they are taken as they come.
HashesReply(n) ==
    /\ pc = "hashes"
    /\ Resolves("hashes", 0)
    /\ hashes' = [i \in 1..n |-> i]
    /\ fetchSent' = [i \in 1..n |-> 0]
    /\ pc' = "for"
    /\ UNCHANGED <<height, tip, local_height, remote_height, pushed, issued,
                   block_futures, ret, addCalls, lastOffered, pingSent,
                   hashReqSent, hashReq>>
    /\ UNCHANGED <<accepted, pingReq, queued, stalled>>

\* Lines 39-43: the reply to GetBlockHashes is of another kind.
HashesWrongKind ==
    /\ pc = "hashes"
    /\ Resolves("hashes", 0)
    /\ Return(Value("ErrPeerHashes", 0))
    /\ UNCHANGED <<height, tip, local_height, remote_height, hashes, pushed,
                   issued, addCalls, lastOffered, pingSent, hashReqSent,
                   hashReq, fetchSent>>
    /\ UNCHANGED <<accepted, pingReq, stalled>>

\* Line 35: peer.request(..).await? propagates the transport error.
HashesTransportError ==
    /\ pc = "hashes"
    /\ Resolves("hashes", 0)
    /\ Return(Value("ErrTransport", 0))
    /\ UNCHANGED <<height, tip, local_height, remote_height, hashes, pushed,
                   issued, addCalls, lastOffered, pingSent, hashReqSent,
                   hashReq, fetchSent>>
    /\ UNCHANGED <<accepted, pingReq, stalled>>

\* Lines 52-77: the for loop takes the next hash, pushes its fetch future and
\* tests the buffer size.  push() does not poll the future.
ForPush ==
    /\ pc = "for"
    /\ pushed < Len(hashes)
    /\ pushed' = pushed + 1
    /\ block_futures' = block_futures \cup {pushed + 1}
    /\ pc' = IF WindowFull(FuturesLen + 1) THEN "await_for" ELSE "for"
    /\ UNCHANGED <<height, tip, local_height, remote_height, hashes, issued,
                   ret, addCalls, lastOffered, pingSent, hashReqSent,
                   hashReq, fetchSent>>
    /\ queued' = Append(queued, issued)
    /\ UNCHANGED <<accepted, pingReq, stalled>>

\* Mutant of ForEnd: the while loop is missing; Ok(()) right after the for.
ForEnd_no_drain ==
    /\ pc = "for"
    /\ pushed = Len(hashes)
    /\ ret' = [kind |-> "Ok", hash |-> 0]
    /\ block_futures' = {}
    /\ pc' = "done"
    /\ UNCHANGED <<height, tip, local_height, remote_height, hashes, pushed,
                   issued, addCalls, lastOffered, pingSent, hashReqSent,
                   hashReq, fetchSent>>
    /\ queued' = <<>>
    /\ UNCHANGED <<accepted, pingReq, stalled>>

\* Lines 52, 90-93: the manifest is exhausted; go on to the while loop.
ForEnd ==
    /\ pc = "for"
    /\ pushed = Len(hashes)
    /\ pc' = "drain"
    /\ UNCHANGED <<height, tip, local_height, remote_height, hashes, pushed,
                   issued, block_futures, ret, addCalls, lastOffered,
                   pingSent, hashReqSent, hashReq, fetchSent>>
    /\ UNCHANGED <<accepted, pingReq, queued, stalled>>

\* Mutant of NextToPoll: the future pushed last is polled first.
NextToPoll_newest == pushed

\* The future block_futures polls for the first time: futures are polled in
\* the order they were pushed.
NextToPoll == issued + 1

\* Lines 55-58, inside block_futures.next().await (lines 78, 93): a pushed
\* future is polled for the first time, which sends its GetBlock request.
PollFuture ==
    /\ pc \in {"await_for", "drain"}
    /\ issued < pushed
    /\ issued' = issued + 1
    /\ fetchSent' = [fetchSent EXCEPT ![NextToPoll] = @ + 1]
    /\ UNCHANGED <<pc, height, tip, local_height, remote_height, hashes,
                   pushed, block_futures, ret, addCalls, lastOffered,
                   pingSent, hashReqSent, hashReq>>
    /\ queued' = Tail(queued)
    /\ UNCHANGED <<accepted, pingReq, stalled>>

\* The error a result that is no block makes sync_blockchain return.
ErrorOf(kind) ==
    CASE kind = "Empty" -> "ErrEmptyBlock"
      [] kind = "Unexpected" -> "ErrUnexpectedResponse"
      [] kind = "Failed" -> "ErrFetchFailed"

\* Mutant of Continue: the for loop is left after the first result (a break).
Continue_break == "drain"

\* Mutant of Continue: the loop does not go on after a block was applied.
Continue_stay == pc

\* Where the loop goes on after a block was applied: the for loop takes the
\* next hash, the while loop awaits the next result.
Continue == IF pc = "await_for" THEN "for" ELSE "drain"

\* Mutant of BlockToAdd: a reordering pipeline, handing over the block with
\* the lowest manifest position among the fetches under way.
BlockToAdd_lowest(i) ==
    CHOOSE m \in Outstanding : \A x \in Outstanding : m <= x

\* The block the match arm hands to add_block: the one just returned.
BlockToAdd(i) == i

\* Mutant of AddBlock: the ? is missing, a rejection is ignored.
AddBlock_ignore(b, rest, ok) ==
    /\ addCalls' = addCalls + 1
    /\ lastOffered' = b
    /\ tip' = IF ok THEN b ELSE tip
    /\ height' = IF ok THEN height + 1 ELSE height
    /\ accepted' = IF ok THEN accepted + 1 ELSE accepted
    /\ queued' = queued
    /\ block_futures' = rest
    /\ pc' = IF pc = "await_for" THEN "for" ELSE "drain"
    /\ ret' = ret

\* Mutant of AddBlock: a rejection rolls Chain State back to where the
\* attempt started.
AddBlock_rollback(b, rest, ok) ==
    /\ addCalls' = addCalls + 1
    /\ lastOffered' = b
    /\ IF ok
         THEN /\ tip' = b
              /\ height' = height + 1
              /\ accepted' = accepted + 1
              /\ block_futures' = rest
              /\ queued' = queued
              /\ pc' = IF pc = "await_for" THEN "for" ELSE "drain"
              /\ ret' = ret
         ELSE /\ ret' = [kind |-> "ErrValidation", hash |-> 0]
              /\ block_futures' = {}
              /\ queued' = <<>>
              /\ pc' = "done"
              /\ height' = local_height
              /\ tip' = 0
              /\ accepted' = accepted

\* Lines 80-82, 95: Ok((_hash, Some(block))) => blockchain.add_block(block)?
\* ok is the verdict of Chain State; a rejection is returned by the ?.
AddBlock(b, rest, ok) ==
    /\ addCalls' = addCalls + 1
    /\ lastOffered' = b
    /\ IF ok
         THEN /\ tip' = b
              /\ height' = height + 1
              /\ accepted' = accepted + 1
              /\ block_futures' = rest
              /\ queued' = queued
              /\ pc' = Continue
              /\ ret' = ret
         ELSE /\ Return(Value("ErrValidation", 0))
              /\ UNCHANGED <<tip, height, accepted>>

\* Whether next() can return the output of future i now.  block_futures
\* polls its futures in the order they were queued, pushed or woken, and
\* returns at the first one that is ready: a reply gets ahead of a future
\* not yet polled when its request was sent before that future was pushed.
\* A transport error can make a future ready at its first poll.
CanComplete(i, kind) ==
    IF queued = <<>>
      THEN TRUE
      ELSE i <= Head(queued) \/ (kind = "Failed" /\ i = issued)

\* Lines 78-88, 93-100: block_futures.next().await returns the output of a
\* fetch future that has completed, whichever it is, and the match handles
\* it before the next suspension point.
Deliver(i, kind, ok) ==
    /\ pc \in {"await_for", "drain"}
    /\ i \in Outstanding
    /\ Resolves("block", i)
    /\ CanComplete(i, kind)
    /\ IF kind = "Block"
         THEN AddBlock(BlockToAdd(i), block_futures \ {i}, ok)
         ELSE /\ Return(Value(ErrorOf(kind), i))
              /\ UNCHANGED <<addCalls, accepted, lastOffered, tip, height>>
    /\ UNCHANGED <<local_height, remote_height, hashes, pushed, issued,
                   pingSent, hashReqSent, hashReq, fetchSent>>
    /\ UNCHANGED <<pingReq, stalled>>

\* Mutant of DrainEnd: a sync that applied no block is reported as an error.
DrainEnd_nothing_is_error ==
    /\ pc = "drain"
    /\ FuturesLen = 0
    /\ Return(IF addCalls = 0 THEN Value("ErrEmptyBlock", 0)
                              ELSE Value("Ok", 0))
    /\ UNCHANGED <<height, tip, local_height, remote_height, hashes, pushed,
                   issued, addCalls, lastOffered, pingSent, hashReqSent,
                   hashReq, fetchSent>>
    /\ UNCHANGED <<accepted, pingReq, stalled>>

\* Mutant of DrainEnd: the while loop gives up waiting (a timeout that
\* reports success).
DrainEnd_no_wait ==
    /\ pc = "drain"
    /\ ret' = [kind |-> "Ok", hash |-> 0]
    /\ block_futures' = {}
    /\ queued' = <<>>
    /\ pc' = "done"
    /\ UNCHANGED <<height, tip, local_height, remote_height, hashes, pushed,
                   issued, addCalls, lastOffered, pingSent, hashReqSent,
                   hashReq, fetchSent, accepted, pingReq, stalled>>

\* Lines 93, 103: next() returns None on an empty set; return Ok(()).
DrainEnd ==
    /\ pc = "drain"
    /\ FuturesLen = 0
    /\ Return(Value("Ok", 0))
    /\ UNCHANGED <<height, tip, local_height, remote_height, hashes, pushed,
                   issued, addCalls, lastOffered, pingSent, hashReqSent,
                   hashReq, fetchSent>>
    /\ UNCHANGED <<accepted, pingReq, stalled>>

Next ==
    \/ SendPing
    \/ \E h \in RemoteHeights : PongReply(h)
    \/ PingWrongKind
    \/ PingTransportError
    \/ \E n \in 0..MaxManifest : HashesReply(n)
    \/ HashesWrongKind
    \/ HashesTransportError
    \/ ForPush
    \/ ForEnd
    \/ PollFuture
    \/ \E i \in 1..MaxManifest, ok \in BOOLEAN : Deliver(i, "Block", ok)
    \/ \E i \in 1..MaxManifest, kind \in FetchKinds \ {"Block"} :
          Deliver(i, kind, FALSE)
    \/ DrainEnd

Spec == Init /\ [][Next]_vars

\* ------------------------------------------------------------------------
\* A correct peer whose replies arrive in manifest order, and a Chain State
\* that accepts every block: the peer is ahead of or level with the node,
\* serves the hashes of the range asked for, and a block for each hash.
HonestPong ==
    \E h \in height..(height + MaxManifest) : PongReply(h)

HonestHashes ==
    /\ pc = "hashes"
    /\ HashesReply(remote_height - local_height)

InOrderDeliver ==
    \E i \in 1..MaxManifest :
        /\ \A j \in Outstanding : i <= j
        /\ Deliver(i, "Block", TRUE)

InOrderNext ==
    \/ SendPing
    \/ HonestPong
    \/ HonestHashes
    \/ ForPush
    \/ ForEnd
    \/ PollFuture
    \/ InOrderDeliver
    \/ DrainEnd

\* Every request is answered and the task is run: a step that can be taken
\* is taken.
SpecInOrder == Init /\ [][InOrderNext]_vars /\ WF_vars(InOrderNext)

\* ------------------------------------------------------------------------
\* One request of the attempt is never answered: the Ping, the
\* GetBlockHashes, or the GetBlock of one manifest position.
Stalls ==
    {Stall("ping", 0), Stall("hashes", 0)}
        \cup {Stall("block", k) : k \in 1..SmallManifest}

InitStall ==
    /\ Start
    /\ stalled \in Stalls

\* The two exchanges of lines 18-44, the manifest of at most maxN hashes.
Negotiation(maxN) ==
    \/ SendPing
    \/ \E h \in RemoteHeights : PongReply(h)
    \/ PingWrongKind
    \/ PingTransportError
    \/ \E n \in 0..maxN : HashesReply(n)
    \/ HashesWrongKind
    \/ HashesTransportError

\* The two loops of lines 52-101.
Fetching ==
    \/ ForPush
    \/ ForEnd
    \/ PollFuture
    \/ \E i \in 1..MaxManifest, ok \in BOOLEAN : Deliver(i, "Block", ok)
    \/ \E i \in 1..MaxManifest, kind \in FetchKinds \ {"Block"} :
          Deliver(i, kind, FALSE)
    \/ DrainEnd

StallNext == Negotiation(SmallManifest) \/ Fetching

SpecStall == InitStall /\ [][StallNext]_vars

\* ------------------------------------------------------------------------
\* A correct peer whose replies arrive in any order, and a Chain State that
\* accepts a block only at its own height: manifest position i is the block
\* of height local_height + i - 1.
StrictAccepts(i) == local_height + i - 1 = height

StrictDeliver ==
    \E i \in 1..MaxManifest : Deliver(i, "Block", StrictAccepts(i))

StrictNext ==
    \/ SendPing
    \/ HonestPong
    \/ HonestHashes
    \/ ForPush
    \/ ForEnd
    \/ PollFuture
    \/ StrictDeliver
    \/ DrainEnd

SpecStrict == Init /\ [][StrictNext]_vars

\* ------------------------------------------------------------------------
\* Every request sent to the peer resolves, with a reply or an error, and
\* the task is run whenever it can go on: a step that can be taken is taken.
SpecFair == Spec /\ WF_vars(Next)

\* ------------------------------------------------------------------------
\* Chain State is shared with the other tasks of the node: while the sync
\* is suspended on its Ping, another task adds a block of its own (its hash
\* is none of the manifest's: a negative tip).
OtherTaskAddsBlock ==
    /\ pc = "ping"
    /\ height < local_height + MaxOtherBlocks
    /\ height' = height + 1
    /\ tip' = 0 - height'
    /\ UNCHANGED <<pc, local_height, remote_height, hashes, pushed, issued,
                   block_futures, ret, addCalls, lastOffered, pingSent,
                   hashReqSent, hashReq, fetchSent>>
    /\ UNCHANGED <<accepted, pingReq, queued, stalled>>

SharedNext == Negotiation(SmallManifest) \/ Fetching \/ OtherTaskAddsBlock

SpecShared == Init /\ [][SharedNext]_vars

\* ================================================================ claims

FetchErrors == {"ErrEmptyBlock", "ErrUnexpectedResponse", "ErrFetchFailed"}
NegotiationErrors == {"ErrPeerHeight", "ErrPeerHashes", "ErrTransport"}
Positions == DOMAIN fetchSent

\* C1: at most BUFFER_SIZE block-fetch requests are sent to the peer and not
\* yet taken by the pipeline, in every reachable state.
C1_WindowBound == Cardinality(Outstanding) <= BUFFER_SIZE

\* C1 witness: the window is full again after a slot was freed and refilled.
C1_Witness ==
    /\ Cardinality(Outstanding) = BUFFER_SIZE
    /\ issued > BUFFER_SIZE

\* C2: a step that sends the GetBlock of position j finds the GetBlock of
\* every position i < j already sent, and fewer than BUFFER_SIZE requests
\* outstanding.
C2_IssueInManifestOrder ==
    [][\A j \in Positions :
          (j \in DOMAIN fetchSent' /\ fetchSent'[j] > fetchSent[j]) =>
              /\ \A i \in 1..(j - 1) : fetchSent[i] >= 1
              /\ Cardinality(Outstanding) < BUFFER_SIZE]_vars

\* C2 witness: a hash beyond the first window was issued.
C2_Witness ==
    /\ Len(hashes) > BUFFER_SIZE
    /\ issued = Len(hashes)
    /\ fetchSent[Len(hashes)] = 1

\* C3: nothing is retried: one Ping at most, one GetBlockHashes at most, one
\* GetBlock at most per manifest position, and exactly one per position when
\* the sync returned Ok.
C3_NoRetry ==
    /\ pingSent <= 1
    /\ hashReqSent <= 1
    /\ \A i \in Positions : fetchSent[i] <= 1
    /\ ret.kind = "Ok" => \A i \in 1..Len(hashes) : fetchSent[i] = 1

\* C3 witness: a successful sync of a manifest longer than the window.
C3_Witness ==
    /\ ret.kind = "Ok"
    /\ Len(hashes) > BUFFER_SIZE
    /\ pingSent = 1
    /\ hashReqSent = 1

\* C4: add_block is called with the block of the fetch next() has just
\* returned, in the same step: a fetch that leaves block_futures while the
\* sync goes on was handed to add_block, and every add_block call gets the
\* block of a fetch that was outstanding and left block_futures in that step.
C4_AppliedInCompletionOrder ==
    [][/\ addCalls' # addCalls =>
            /\ addCalls' = addCalls + 1
            /\ lastOffered' \in Outstanding
            /\ pc' # "done" => block_futures' = block_futures \ {lastOffered'}
       /\ (pc' # "done" /\ block_futures' # block_futures
              /\ block_futures' \subseteq block_futures) =>
            addCalls' = addCalls + 1]_vars

\* C4 witness: add_block got the block of position j while the fetch of a
\* position i < j is still under way.
C4_Witness ==
    /\ pc # "done"
    /\ lastOffered > 0
    /\ \E i \in Outstanding : i < lastOffered

\* C5: a fetch whose output is taken without a call of add_block (None, a
\* transport error, a reply of another kind) makes the sync return its error
\* in that step, and once such an error is returned no GetBlock is sent.
C5_AbortOnFailedFetch ==
    [][/\ (\E i \in Outstanding : i \notin block_futures')
             /\ addCalls' = addCalls =>
            /\ pc' = "done"
            /\ ret'.kind \in FetchErrors
            /\ ret'.hash \in Outstanding
       /\ ret.kind \in FetchErrors =>
            /\ issued' = issued
            /\ fetchSent' = fetchSent
            /\ ret' = ret]_vars

\* C5 witness: a fetch failed while hashes of the manifest were not issued.
C5_Witness ==
    /\ ret.kind \in FetchErrors
    /\ ret.hash < issued
    /\ issued < Len(hashes)

\* C6: an add_block call that does not raise the height (a rejection) makes
\* the sync return the validation error in that step; after it no GetBlock
\* is sent and add_block is not called.
C6_AbortOnRejectedBlock ==
    [][/\ (addCalls' # addCalls /\ height' = height) =>
            /\ pc' = "done"
            /\ ret'.kind = "ErrValidation"
       /\ ret.kind = "ErrValidation" =>
            /\ issued' = issued
            /\ fetchSent' = fetchSent
            /\ addCalls' = addCalls
            /\ ret' = ret]_vars

\* C6 witness: a block was rejected while other requests were in flight.
C6_Witness ==
    /\ ret.kind = "ErrValidation"
    /\ pc = "done"
    /\ issued > addCalls

\* C7: the step that returns Ok(()) starts in a state where every hash of the
\* manifest was pushed and issued, block_futures is empty, and add_block was
\* called once per hash and accepted each block.
C7_SuccessMeansAllApplied ==
    [][(ret'.kind = "Ok" /\ ret.kind # "Ok") =>
          /\ pushed = Len(hashes)
          /\ issued = Len(hashes)
          /\ \A i \in 1..Len(hashes) : fetchSent[i] >= 1
          /\ block_futures = {}
          /\ addCalls = Len(hashes)
          /\ height = local_height + Len(hashes)]_vars

\* C7 witness: Ok(()) after a manifest longer than the window.
C7_Witness ==
    /\ ret.kind = "Ok"
    /\ pc = "done"
    /\ addCalls > BUFFER_SIZE

\* C8 (as claimed): whenever a block fetch was issued, the manifest has
\* remote_height - local_height hashes.
C8_ManifestLengthChecked ==
    issued > 0 => Len(hashes) = remote_height - local_height

\* C9 (as claimed): no GetBlockHashes is sent with start > end.
C9_RangeChecked ==
    \A q \in hashReq : q.start <= q.end

\* C10: when the sync returned the error of a failed height or hash-range
\* query, no hash was pushed or issued, add_block was not called and Chain
\* State is as it was; after a failed height query no GetBlockHashes was sent.
C10_NegotiationFailure ==
    /\ ret.kind \in NegotiationErrors =>
          /\ pc = "done"
          /\ pushed = 0
          /\ issued = 0
          /\ addCalls = 0
          /\ height = local_height
          /\ tip = 0
    /\ (ret.kind = "ErrPeerHeight"
          \/ (ret.kind = "ErrTransport" /\ remote_height = -1)) =>
          /\ hashReqSent = 0
          /\ hashReq = {}
    /\ (pc = "done" /\ remote_height = -1) => ret.kind \in NegotiationErrors

\* C10 witness: the hash-range query failed after a good height query.
C10_Witness ==
    /\ ret.kind \in {"ErrPeerHashes", "ErrTransport"}
    /\ remote_height >= 0
    /\ hashReqSent = 1

\* C11: at every point of the attempt, also after it returned an error,
\* the height of Chain State is its height at the start plus the number of
\* add_block calls that succeeded: nothing is rolled back, nothing is written
\* past add_block.
C11_HeightCountsAcceptedBlocks ==
    /\ height = StartHeight + accepted
    /\ local_height # -1 => height = local_height + accepted
    /\ accepted <= addCalls

\* C11 witness: a manifest of two hashes whose second add_block is rejected
\* leaves the height advanced by one.
C11_Witness ==
    /\ ret.kind = "ErrValidation"
    /\ Len(hashes) = 2
    /\ addCalls = 2
    /\ height = local_height + 1

\* C12 (as claimed): when the fetch of the k-th hash returned None, at most
\* k + BUFFER_SIZE - 1 block fetches were issued.
C12_IssuedBoundByPosition ==
    ret.kind = "ErrEmptyBlock" => issued <= ret.hash + BUFFER_SIZE - 1

\* C12 (amended): when the fetch of the k-th hash returned None the sync has
\* returned the missing-block error, and the block fetches issued are at
\* most the blocks applied before plus BUFFER_SIZE; that is at most
\* k + BUFFER_SIZE - 1 when fewer than k blocks were applied before.
C12_IssuedBoundByApplied ==
    ret.kind = "ErrEmptyBlock" =>
        /\ pc = "done"
        /\ ret.hash \in 1..Len(hashes)
        /\ issued <= accepted + BUFFER_SIZE
        /\ accepted < ret.hash => issued <= ret.hash + BUFFER_SIZE - 1

\* C12 witness: the first hash returns None after a later fetch completed
\* and freed a slot: more than k + BUFFER_SIZE - 1 fetches were issued.
C12_Witness ==
    /\ ret.kind = "ErrEmptyBlock"
    /\ ret.hash = 1
    /\ issued = accepted + BUFFER_SIZE
    /\ issued > ret.hash + BUFFER_SIZE - 1

\* C13: against a correct peer at height R >= L whose replies arrive in
\* manifest order, with every block accepted, the sync returns Ok(()) and
\* the height of Chain State is R.
C13_HonestPeerSyncs ==
    <>[](pc = "done" /\ ret.kind = "Ok" /\ height = remote_height)

\* C13 witness: such a sync of a range longer than the window has returned.
C13_Witness ==
    /\ pc = "done"
    /\ ret.kind = "Ok"
    /\ Len(hashes) > BUFFER_SIZE
    /\ Len(hashes) = remote_height - local_height
    /\ height = remote_height

FatalErrors == FetchErrors \cup {"ErrValidation"}

\* C14: the step that takes the first fatal result (a failed fetch, a missing
\* block, a rejected block) is the step that returns the error: the function
\* is done and block_futures dropped, whatever is still in flight.
C14_ErrorReturnsWithoutWaiting ==
    [][ret'.kind \in FatalErrors =>
          /\ pc' = "done"
          /\ block_futures' = {}
          /\ ret.kind # "none" => ret' = ret]_vars

\* C14 witness: the error is returned while nine or more requests that were
\* sent have not resolved.
C14_Witness ==
    /\ ret.kind \in FatalErrors
    /\ pc = "done"
    /\ addCalls = 0
    /\ issued >= BUFFER_SIZE

\* The request that never resolves was sent.
StallIssued ==
    \/ stalled.kind = "ping" /\ pingSent >= 1
    \/ stalled.kind = "hashes" /\ hashReqSent >= 1
    \/ /\ stalled.kind = "block"
       /\ stalled.pos \in DOMAIN fetchSent
       /\ fetchSent[stalled.pos] >= 1

\* C15 (as claimed): once a request that never resolves was sent, the sync
\* never returns.
C15_StallNeverReturns == StallIssued => pc # "done"

\* C15 (amended): once a request that never resolves was sent, the sync never
\* returns Ok(()); it never returns at all when the request is the Ping or
\* the GetBlockHashes; when it is a GetBlock the sync returns only the error
\* of another fetch or of a rejected block.
C15_StallNeverSucceeds ==
    StallIssued =>
        /\ ret.kind # "Ok"
        /\ stalled.kind \in {"ping", "hashes"} => pc # "done"
        /\ pc = "done" =>
              /\ ret.kind \in FatalErrors
              /\ ret.hash # stalled.pos

\* C15 witness: every other block was applied and the sync awaits the one
\* fetch that never resolves.
C15_Witness ==
    /\ stalled.kind = "block"
    /\ pc = "drain"
    /\ Len(hashes) > 1
    /\ issued = Len(hashes)
    /\ block_futures = {stalled.pos}

\* The smaller of two numbers.
Min(a, b) == IF a <= b THEN a ELSE b

\* C16 (as claimed): a step that takes a completion and goes on starts in a
\* state where every hash the for loop has taken is issued, so that
\* min(BUFFER_SIZE, hashes not yet completed) requests are outstanding: the
\* hash pushed after the completion before was issued first.
C16_RefillBeforeNextCompletion ==
    [][accepted' = accepted + 1 =>
          /\ issued = pushed
          /\ Cardinality(Outstanding)
                >= Min(BUFFER_SIZE, Len(hashes) - accepted)]_vars

\* C17: with a Chain State that accepts a block only at its own height and
\* a correct peer, every add_block call that gets the block of position j
\* while the fetch of a position i < j is under way fails the sync with the
\* validation error, and the sync fails in no other way.
C17_OutOfOrderFailsStrictChain ==
    /\ [][(addCalls' = addCalls + 1
             /\ \E i \in block_futures : i < lastOffered') =>
            (pc' = "done" /\ ret'.kind = "ErrValidation")]_vars
    /\ [](ret.kind \in {"none", "Ok", "ErrValidation"})
    /\ [](ret.kind = "ErrValidation" => lastOffered > accepted + 1)

\* C17 witness: a correct peer, a manifest of two hashes or more, and the
\* sync has failed because a block was handed over ahead of an earlier one.
C17_Witness ==
    /\ pc = "done"
    /\ ret.kind = "ErrValidation"
    /\ Len(hashes) >= 2
    /\ Len(hashes) = remote_height - local_height
    /\ lastOffered > accepted + 1

\* C18: when every request resolves, the sync returns, Ok(()) or an error.
C18_SyncReturns == <>(pc = "done" /\ ret.kind # "none")

\* C18 witness: a sync of a manifest longer than the window has returned
\* after results were taken out of manifest order.
C18_Witness ==
    /\ pc = "done"
    /\ ret.kind = "Ok"
    /\ Len(hashes) > BUFFER_SIZE
    /\ lastOffered < Len(hashes)

\* C19 as stated: the local height is read once, it is the height of the
\* Ping and the start of the hash-range query, and that start is the height
\* Chain State reports when the query is sent.
C19_StartIsCurrentHeight ==
    [][/\ local_height' # local_height =>
              pc = "start" /\ local_height' = height
       /\ pingReq' # pingReq => pingReq' = {local_height'}
       /\ hashReq' # hashReq =>
              hashReq' = {[start |-> local_height, end |-> remote_height']}
       /\ hashReq' # hashReq =>
              \A q \in hashReq' : q.start = height]_vars

\* C19 amended: the local height is read once, it is the height of the Ping
\* and the start of the hash-range query; when the query is sent that start
\* is Chain State's height less the blocks other tasks added meanwhile, at
\* most the height Chain State reports.
C19_StartIsHeightReadAtStart ==
    [][/\ local_height' # local_height =>
              pc = "start" /\ local_height' = height
       /\ pingReq' # pingReq => pingReq' = {local_height'}
       /\ hashReq' # hashReq =>
              hashReq' = {[start |-> local_height, end |-> remote_height']}
       /\ hashReq' # hashReq =>
              \A q \in hashReq' : /\ q.start <= height
                                  /\ q.start >= height - MaxOtherBlocks]_vars

\* C19 witness: the hash-range query was sent after another task had added
\* a block, and starts at the height read before that block.
C19_Witness ==
    /\ pc = "hashes"
    /\ height > local_height
    /\ hashReq = {[start |-> local_height, end |-> remote_height]}
    /\ pingReq = {local_height}

\* The peer's manifest was received and is empty.
EmptyManifestReceived ==
    /\ hashes = <<>>
    /\ \/ pc \in {"for", "await_for", "drain"}
       \/ pc = "done" /\ ret.kind \notin NegotiationErrors

\* C20: with an empty manifest no block fetch is pushed or sent, add_block
\* is not called, Chain State's height and tip stay as read at the start,
\* and the sync returns Ok(()).
C20_EmptyManifestIsNoOp ==
    EmptyManifestReceived =>
        /\ pushed = 0
        /\ issued = 0
        /\ block_futures = {}
        /\ \A i \in Positions : fetchSent[i] = 0
        /\ addCalls = 0
        /\ accepted = 0
        /\ height = local_height
        /\ tip = 0
        /\ pc # "await_for"
        /\ pc = "done" => ret.kind = "Ok"

\* C20 witness: the peer is level with the node, its manifest was empty and
\* the sync has returned Ok(()).
C20_Witness ==
    /\ pc = "done"
    /\ ret.kind = "Ok"
    /\ hashes = <<>>
    /\ hashReqSent = 1
    /\ remote_height = local_height

====
